---- MODULE Spec2Model ----
(***************************************************************************)
(* Model of the stories-file extraction engine (src/unnamed/part_001):     *)
(* parseMetaData, parseStoryExports and the field extractors they call.    *)
(* Text is a TLA+ string; positions are 0-based as in the source, and a    *)
(* failed search is -1.  An optional value (string | undefined, or         *)
(* MetaData | null) is the empty tuple when absent and a one-element tuple *)
(* when present.                                                           *)
(***************************************************************************)
EXTENDS Integers, Sequences, FiniteSets, TLC

VARIABLES
  content,   \* the text handed to the function under way
  pc,        \* the position in the program
  meta,      \* the value returned by parseMetaData
  lines,     \* parseStoryExports: the lines of the text
  i,         \* parseStoryExports: the line cursor (0-based)
  stories,   \* parseStoryExports: the records pushed so far
  origin,    \* history: for each record, the line of its export header
  startPos,  \* extractBacktickContent: the position of the opening backtick
  result,    \* the value returned by extractBacktickContent
  countI,      \* countStoryLines: its own line index i
  countLevel,  \* countStoryLines: braceLevel
  countLines,  \* countStoryLines: lineCount
  storiesData,      \* processComponent: the parsed StoriesData
  componentName,    \* processComponent: the component being processed
  markdownContent,  \* processComponent: the text generateMarkdownContent built
  componentNames,   \* generateComponentMarkdown: its argument
  nameIndex,        \* generateComponentMarkdown: names the for loop has left behind
  existing,         \* the file system: components that have a stories file
  written,          \* the file system: the files written, in order
  attempts,         \* history: the names processComponent was called with
  errors,           \* console.error: the names reported as failed
  promise           \* the promise of generateComponentMarkdown

\* the locals of countStoryLines / countFunctionStoryLines
countVars == <<countI, countLevel, countLines>>

\* the locals of processComponent
genVars == <<storiesData, componentName, markdownContent>>

\* the state of generateComponentMarkdown and of the file system it uses
batchVars ==
  <<componentNames, nameIndex, existing, written, attempts, errors, promise>>

\* the variables of the parser, the position in the program apart
parserVars == <<content, meta, lines, i, stories, origin, startPos, result>>

\* the variables the parser does not touch
nonParserVars == <<genVars, batchVars>>

\* the variables the functions of the parser do not touch when they are
\* taken as one step each
otherVars == <<countVars, nonParserVars>>

vars ==
  <<content, pc, meta, lines, i, stories, origin, startPos, result, otherVars>>

\* no counting loop is under way
IdleCount == countI = 0 /\ countLevel = 0 /\ countLines = 0

\* processComponent is not under way
IdleGen == storiesData = <<>> /\ componentName = "" /\ markdownContent = ""

\* generateComponentMarkdown has not been called
IdleBatch ==
  /\ componentNames = <<>>
  /\ nameIndex = 0
  /\ existing = {}
  /\ written = <<>>
  /\ attempts = <<>>
  /\ errors = <<>>
  /\ promise = [state |-> "none", value |-> <<>>]

\* the parser is not under way
IdleParser ==
  /\ content = ""
  /\ meta = <<>>
  /\ lines = <<>>
  /\ i = 0
  /\ stories = <<>>
  /\ origin = <<>>
  /\ startPos = 0
  /\ result = <<>>

IdleOthers == IdleCount /\ IdleGen /\ IdleBatch

(***************************************************************************)
(* Characters and the string primitives of the host language.             *)
(***************************************************************************)
\* the backtick character (a string literal cannot hold a lone backtick)
BT == SubSeq("`'", 1, 1)

BS == "\\"

None == <<>>

Some(v) == <<v>>

\* s[k]; the empty string (for undefined) when k is outside the text
At(s, k) == IF 0 <= k /\ k < Len(s) THEN SubSeq(s, k + 1, k + 1) ELSE ""

\* an index held to 0..Len(s)
Clamp(s, k) == IF k < 0 THEN 0 ELSE IF k > Len(s) THEN Len(s) ELSE k

\* s.substring(a, b): both ends held to the text, the smaller one first
Substring(s, a, b) ==
  LET lo == IF Clamp(s, a) <= Clamp(s, b) THEN Clamp(s, a) ELSE Clamp(s, b)
      hi == IF Clamp(s, a) <= Clamp(s, b) THEN Clamp(s, b) ELSE Clamp(s, a)
  IN  IF lo = hi THEN "" ELSE SubSeq(s, lo + 1, hi)

\* s.startsWith(pat, k)
StartsWithAt(s, pat, k) ==
  /\ k >= 0
  /\ k + Len(pat) <= Len(s)
  /\ SubSeq(s, k + 1, k + Len(pat)) = pat

\* the least element of a set of positions, -1 when there is none
First(S) == IF S = {} THEN -1 ELSE CHOOSE k \in S : \A j \in S : k <= j

\* s.indexOf(pat, from): the first position >= from where pat occurs, a
\* negative start taken as 0; -1 when there is none
indexOf(s, pat, from) ==
  First({k \in (IF from < 0 THEN 0 ELSE from)..(Len(s) - Len(pat)) :
           StartsWithAt(s, pat, k)})

\* the characters \s matches among those the inputs use
IsSpace(c) == c \in {" ", "\t", "\n", "\r"}

WordAlphabet == "abcdefghijklmnopqrstuvwxyzABCDEFGHIJKLMNOPQRSTUVWXYZ0123456789_"

\* the characters \w matches
WordChars == {SubSeq(WordAlphabet, k, k) : k \in 1..Len(WordAlphabet)}

IsWordChar(c) == c \in WordChars

\* first position >= k that does not hold whitespace (Len(s) when none)
RECURSIVE SkipSpaces(_, _)
SkipSpaces(s, k) ==
  IF k < Len(s) /\ IsSpace(At(s, k)) THEN SkipSpaces(s, k + 1) ELSE k

\* one past the last position < k that does not hold whitespace
RECURSIVE SkipSpacesBack(_, _)
SkipSpacesBack(s, k) ==
  IF k > 0 /\ IsSpace(At(s, k - 1)) THEN SkipSpacesBack(s, k - 1) ELSE k

\* s.trim()
trim(s) ==
  LET a == SkipSpaces(s, 0)
  IN  IF a >= Len(s) THEN "" ELSE Substring(s, a, SkipSpacesBack(s, Len(s)))

\* s.split('\n'): the empty text gives one empty line
RECURSIVE split(_)
split(s) ==
  LET n == indexOf(s, "\n", 0)
  IN  IF n = -1 THEN <<s>>
      ELSE <<Substring(s, 0, n)>> \o split(Substring(s, n + 1, Len(s)))

\* ls.join('\n')
RECURSIVE join(_)
join(ls) ==
  IF Len(ls) = 0 THEN ""
  ELSE IF Len(ls) = 1 THEN ls[1]
  ELSE ls[1] \o "\n" \o join(Tail(ls))

(***************************************************************************)
(* extractBacktickContent and countPrecedingBackslashes.                   *)
(***************************************************************************)
\* the while loop of countPrecedingBackslashes, from checkPos downwards
RECURSIVE CountBackslashesLoop(_, _, _)
CountBackslashesLoop(text, checkPos, count) ==
  IF checkPos >= 0 /\ At(text, checkPos) = BS
  THEN CountBackslashesLoop(text, checkPos - 1, count + 1)
  ELSE count

countPrecedingBackslashes(text, pos) == CountBackslashesLoop(text, pos - 1, 0)

\* a scan that stops at every backtick, escaped or not
MutIsClosingBacktick(text, pos) == At(text, pos) = BT

\* the test that ends the scan: a backtick with an even number of
\* backslashes before it
IsClosingBacktick(text, pos) ==
  /\ At(text, pos) = BT
  /\ countPrecedingBackslashes(text, pos) % 2 = 0

\* the while loop of extractBacktickContent: the text accumulated from pos
RECURSIVE BacktickLoop(_, _, _)
BacktickLoop(text, pos, acc) ==
  IF pos >= Len(text) THEN acc
  ELSE IF IsClosingBacktick(text, pos) THEN acc
  ELSE BacktickLoop(text, pos + 1, acc \o At(text, pos))

\* an extraction that gives up when the closing backtick is missing
MutExtractBacktickContent(text, start) ==
  IF \E p \in (start + 1)..(Len(text) - 1) : IsClosingBacktick(text, p)
  THEN trim(BacktickLoop(text, start + 1, ""))
  ELSE ""

extractBacktickContent(text, start) == trim(BacktickLoop(text, start + 1, ""))


(***************************************************************************)
(* parseMetaData and extractMetaSection.                                   *)
(***************************************************************************)
MetaPatterns == <<"const meta =", "const meta:", "const meta =">>

\* the for loop over the fallback patterns: the first hit, or -1
RECURSIVE FirstPatternHit(_, _)
FirstPatternHit(text, k) ==
  IF k > Len(MetaPatterns) THEN -1
  ELSE LET p == indexOf(text, MetaPatterns[k], 0)
       IN  IF p # -1 THEN p ELSE FirstPatternHit(text, k + 1)

extractMetaSection(text) ==
  LET first     == indexOf(text, "const meta", 0)
      metaStart == IF first = -1 THEN FirstPatternHit(text, 1) ELSE first
      metaEnd   == indexOf(text, "export default meta", metaStart)
  IN  IF metaStart = -1 THEN None
      ELSE IF metaEnd = -1 THEN None
      ELSE Some(Substring(text, metaStart, metaEnd))

\* parseMetaData without any of its miss checks
MutParseMetaData(text) ==
  LET metaSection == IF extractMetaSection(text) = None THEN ""
                     ELSE extractMetaSection(text)[1]
      componentStart == indexOf(metaSection, "component:", 0)
      backtickStart  == indexOf(metaSection, BT, componentStart)
  IN  Some([componentDescription |->
              extractBacktickContent(metaSection, backtickStart)])

\* parseMetaData without the check that the component: key was found
MutParseMetaDataNoKey(text) ==
  LET section == extractMetaSection(text)
  IN  IF section = None \/ section = Some("") THEN None
      ELSE LET metaSection    == section[1]
               componentStart == indexOf(metaSection, "component:", 0)
               backtickStart  == indexOf(metaSection, BT, componentStart)
           IN  IF backtickStart = -1 THEN None
               ELSE Some([componentDescription |->
                            extractBacktickContent(metaSection, backtickStart)])

parseMetaData(text) ==
  LET section == extractMetaSection(text)
  IN  IF section = None \/ section = Some("") THEN None
      ELSE LET metaSection    == section[1]
               componentStart == indexOf(metaSection, "component:", 0)
               backtickStart  == indexOf(metaSection, BT, componentStart)
           IN  IF componentStart = -1 THEN None
               ELSE IF backtickStart = -1 THEN None
               ELSE Some([componentDescription |->
                            extractBacktickContent(metaSection, backtickStart)])

(***************************************************************************)
(* The three header shapes tested by parseStoryExports.                    *)
(***************************************************************************)
ExportPrefix == "export const "

\* length of the run of \w characters that starts at k
RECURSIVE WordRun(_, _)
WordRun(s, k) ==
  IF k < Len(s) /\ IsWordChar(At(s, k)) THEN 1 + WordRun(s, k + 1) ELSE 0

\* /^export const (\w+)<rest>/ : the captured name, when the line starts
\* with the prefix, a non-empty name and then the text rest
HeaderName(line, rest) ==
  IF ~StartsWithAt(line, ExportPrefix, 0) THEN None
  ELSE LET n == WordRun(line, Len(ExportPrefix))
       IN  IF n >= 1 /\ StartsWithAt(line, rest, Len(ExportPrefix) + n)
           THEN Some(Substring(line, Len(ExportPrefix), Len(ExportPrefix) + n))
           ELSE None

\* /^export const (\w+): Story = \{\s*$/
MatchObjectHeader(line) ==
  LET name == HeaderName(line, ": Story = {")
  IN  IF name = None THEN None
      ELSE IF SkipSpaces(line,
                Len(ExportPrefix) + Len(name[1]) + Len(": Story = {")) = Len(line)
           THEN name
           ELSE None

\* /^export const (\w+) = \(\) => \{/
MatchFunctionHeader(line) == HeaderName(line, " = () => {")

\* /^export const (\w+): Story = \(/
MatchFunctionVariantHeader(line) == HeaderName(line, ": Story = (")

\* the header test of one loop iteration: the match and isObjectFormat
StoryMatch(line) ==
  IF MatchObjectHeader(line) # None
  THEN [match |-> MatchObjectHeader(line), isObjectFormat |-> TRUE]
  ELSE IF MatchFunctionHeader(line) # None
  THEN [match |-> MatchFunctionHeader(line), isObjectFormat |-> FALSE]
  ELSE [match |-> MatchFunctionVariantHeader(line), isObjectFormat |-> FALSE]

(***************************************************************************)
(* Body capture: the four brace-counting loops.                            *)
(***************************************************************************)
\* the inner for loop over the characters of one line: the level after it
RECURSIVE BraceLevelAfter(_, _, _)
BraceLevelAfter(line, k, level) ==
  IF k >= Len(line) THEN level
  ELSE BraceLevelAfter(line, k + 1,
         IF At(line, k) = "{" THEN level + 1
         ELSE IF At(line, k) = "}" THEN level - 1
         ELSE level)

RECURSIVE StoryContentLoop(_, _, _, _)
StoryContentLoop(ls, k, braceLevel, storyLines) ==
  IF k < Len(ls) /\ braceLevel > 0
  THEN StoryContentLoop(ls, k + 1, BraceLevelAfter(ls[k + 1], 0, braceLevel),
                        Append(storyLines, ls[k + 1]))
  ELSE storyLines

\* a capture that stops at the first line holding a closing brace
MutStoryLines(ls, startIndex) ==
  LET stop == First({k \in (startIndex + 1)..(Len(ls) - 1) :
                       indexOf(ls[k + 1], "}", 0) # -1})
  IN  SubSeq(ls, startIndex + 2, IF stop = -1 THEN Len(ls) ELSE stop + 1)

\* the captured lines, before they are joined
StoryLines(ls, startIndex) == StoryContentLoop(ls, startIndex + 1, 1, <<>>)

extractStoryContent(ls, startIndex) == join(StoryLines(ls, startIndex))

RECURSIVE CountStoryLoop(_, _, _, _)
CountStoryLoop(ls, k, braceLevel, lineCount) ==
  IF k < Len(ls) /\ braceLevel > 0
  THEN CountStoryLoop(ls, k + 1, BraceLevelAfter(ls[k + 1], 0, braceLevel),
                      lineCount + 1)
  ELSE lineCount

\* a count that leaves the header line out
MutCountStoryLines(ls, startIndex) == CountStoryLoop(ls, startIndex + 1, 1, 0)

countStoryLines(ls, startIndex) == CountStoryLoop(ls, startIndex + 1, 1, 1)

RECURSIVE FunctionStoryContentLoop(_, _, _, _)
FunctionStoryContentLoop(ls, k, braceLevel, storyLines) ==
  IF k < Len(ls) /\ braceLevel > 0
  THEN FunctionStoryContentLoop(ls, k + 1,
                                BraceLevelAfter(ls[k + 1], 0, braceLevel),
                                Append(storyLines, ls[k + 1]))
  ELSE storyLines

extractFunctionStoryContent(ls, startIndex) ==
  join(FunctionStoryContentLoop(ls, startIndex + 1, 1, <<>>))

RECURSIVE CountFunctionStoryLoop(_, _, _, _)
CountFunctionStoryLoop(ls, k, braceLevel, lineCount) ==
  IF k < Len(ls) /\ braceLevel > 0
  THEN CountFunctionStoryLoop(ls, k + 1,
                              BraceLevelAfter(ls[k + 1], 0, braceLevel),
                              lineCount + 1)
  ELSE lineCount

\* a count whose depth starts from the braces of the header line
MutCountFunctionStoryLines(ls, startIndex) ==
  CountFunctionStoryLoop(ls, startIndex + 1,
                         IF indexOf(ls[startIndex + 1], "}", 0) # -1
                         THEN 0 ELSE 1,
                         1)

countFunctionStoryLines(ls, startIndex) ==
  CountFunctionStoryLoop(ls, startIndex + 1, 1, 1)

(***************************************************************************)
(* Field extractors.  Each regular expression is matched as the engine     *)
(* matches it: the leftmost start that succeeds, greedy runs taken to      *)
(* their full length, a lazy group ended at the first position where the   *)
(* rest of the pattern matches.                                            *)
(***************************************************************************)
IsQuote(c) == c \in {"\"", "'"}

\* length of the run of [^"'] characters that starts at k
RECURSIVE NonQuoteRun(_, _)
NonQuoteRun(s, k) ==
  IF k < Len(s) /\ ~IsQuote(At(s, k)) THEN 1 + NonQuoteRun(s, k + 1) ELSE 0

\* /name:\s*["']([^"']+)["']/ tried at each "name:" from position from on
RECURSIVE StoryNameFrom(_, _)
StoryNameFrom(text, from) ==
  LET p == indexOf(text, "name:", from)
  IN  IF p = -1 THEN None
      ELSE LET q == SkipSpaces(text, p + 5)
               n == NonQuoteRun(text, q + 1)
           IN  IF IsQuote(At(text, q)) /\ n >= 1 /\ q + 1 + n < Len(text)
               THEN Some(Substring(text, q + 1, q + 1 + n))
               ELSE StoryNameFrom(text, p + 1)

extractStoryName(storyContent) == StoryNameFrom(storyContent, 0)

EndsWith(s, pat) == StartsWithAt(s, pat, Len(s) - Len(pat))

\* str.slice(1, -1): empty when the text has fewer than three characters
Slice1(str) == IF Len(str) <= 2 THEN "" ELSE SubSeq(str, 2, Len(str) - 1)

\* a fallback that drops the first character whatever it is
MutCleanQuotes(str) ==
  IF \/ StartsWithAt(str, "\"", 0) /\ EndsWith(str, "\"")
     \/ StartsWithAt(str, "'", 0) /\ EndsWith(str, "'")
  THEN Slice1(str)
  ELSE Substring(str, 1, Len(str))

cleanQuotes(str) ==
  IF StartsWithAt(str, "\"", 0) /\ EndsWith(str, "\"")
  THEN Slice1(str)
  ELSE IF StartsWithAt(str, "'", 0) /\ EndsWith(str, "'")
  THEN Slice1(str)
  ELSE LET a == IF IsQuote(At(str, 0)) THEN 1 ELSE 0
           b == IF Len(str) > a /\ IsQuote(At(str, Len(str) - 1))
                THEN Len(str) - 1 ELSE Len(str)
       IN  Substring(str, a, b)

\* a closing alternative without its comma branch
MutStoryEndAt(text, e) == At(text, e) = "}"

\* (?:,\s*\}|\}) matches at e
StoryEndAt(text, e) ==
  \/ At(text, e) = "," /\ At(text, SkipSpaces(text, e + 1)) = "}"
  \/ At(text, e) = "}"

\* first position >= e where the closing alternative matches, or -1
FirstStoryEnd(text, e) ==
  First({k \in e..(Len(text) - 1) : StoryEndAt(text, k)})

\* /story:\s*([\s\S]*?)(?:,\s*\}|\})/
extractStoryDescription(storyContent) ==
  LET p == indexOf(storyContent, "story:", 0)
      q == SkipSpaces(storyContent, p + 6)
      e == FirstStoryEnd(storyContent, q)
  IN  IF p = -1 \/ e = -1 THEN None
      ELSE Some(cleanQuotes(trim(Substring(storyContent, q, e))))

extractApiDescription(storyContent) ==
  LET storyStart    == indexOf(storyContent, "story:", 0)
      backtickStart == indexOf(storyContent, BT, storyStart)
  IN  IF storyStart = -1 THEN None
      ELSE IF backtickStart = -1 THEN None
      ELSE Some(extractBacktickContent(storyContent, backtickStart))

\* /render:\s*\(\)\s*=>\s*\{([\s\S]*?)\n  \}/ tried at each "render:"
RECURSIVE RenderMatchFrom(_, _)
RenderMatchFrom(text, from) ==
  LET p == indexOf(text, "render:", from)
  IN  IF p = -1 THEN None
      ELSE LET a == SkipSpaces(text, p + 7)
               b == SkipSpaces(text, a + 2)
               c == SkipSpaces(text, b + 2)
               close == indexOf(text, "\n  }", c + 1)
           IN  IF /\ StartsWithAt(text, "()", a)
                  /\ StartsWithAt(text, "=>", b)
                  /\ At(text, c) = "{"
                  /\ close # -1
               THEN Some(Substring(text, c + 1, close))
               ELSE RenderMatchFrom(text, p + 1)

\* first r >= k holding ")" followed by \s*; , or -1
FirstParenSemi(text, k) ==
  First({r \in k..(Len(text) - 1) :
           At(text, r) = ")" /\ At(text, SkipSpaces(text, r + 1)) = ";"})

\* /return\s*\(\s*([\s\S]*?)\s*\)\s*;/ , group 1 trimmed
RECURSIVE ParenReturnFrom(_, _)
ParenReturnFrom(text, from) ==
  LET p == indexOf(text, "return", from)
  IN  IF p = -1 THEN None
      ELSE LET q == SkipSpaces(text, p + 6)
               r == FirstParenSemi(text, q + 1)
           IN  IF At(text, q) = "(" /\ r # -1
               THEN Some(trim(Substring(text, q + 1, r)))
               ELSE ParenReturnFrom(text, p + 1)

\* /return\s+([\s\S]*?);/ , group 1 trimmed
RECURSIVE SimpleReturnFrom(_, _)
SimpleReturnFrom(text, from) ==
  LET p == indexOf(text, "return", from)
  IN  IF p = -1 THEN None
      ELSE LET g    == SkipSpaces(text, p + 6)
               semi == indexOf(text, ";", g)
           IN  IF IsSpace(At(text, p + 6)) /\ semi # -1
               THEN Some(trim(Substring(text, g, semi)))
               ELSE SimpleReturnFrom(text, p + 1)

\* first e >= k where the text tok starts and only whitespace follows it
FirstAtEnd(text, tok, k) ==
  First({e \in k..(Len(text) - Len(tok)) :
           /\ StartsWithAt(text, tok, e)
           /\ SkipSpaces(text, e + Len(tok)) = Len(text)})

\* /return\s*\(([\s\S]*?)\);\s*$/ , group 1 trimmed
RECURSIVE BodyParenReturnFrom(_, _)
BodyParenReturnFrom(text, from) ==
  LET p == indexOf(text, "return", from)
  IN  IF p = -1 THEN None
      ELSE LET q == SkipSpaces(text, p + 6)
               e == FirstAtEnd(text, ");", q + 1)
           IN  IF At(text, q) = "(" /\ e # -1
               THEN Some(trim(Substring(text, q + 1, e)))
               ELSE BodyParenReturnFrom(text, p + 1)

\* /return\s+([^;]+);\s*$/ , group 1 trimmed
RECURSIVE BodyLineReturnFrom(_, _)
BodyLineReturnFrom(text, from) ==
  LET p == indexOf(text, "return", from)
  IN  IF p = -1 THEN None
      ELSE LET semi == indexOf(text, ";", p + 6)
           IN  IF /\ IsSpace(At(text, p + 6))
                  /\ semi >= p + 8
                  /\ SkipSpaces(text, semi + 1) = Len(text)
               THEN Some(trim(Substring(text, p + 6, semi)))
               ELSE BodyLineReturnFrom(text, p + 1)

\* the multi-line return ended at the first semicolon
MutBodyMultiReturnFrom(text, from) == SimpleReturnFrom(text, from)

\* /return\s+([\s\S]*?);\s*$/ , group 1 trimmed
RECURSIVE BodyMultiReturnFrom(_, _)
BodyMultiReturnFrom(text, from) ==
  LET p == indexOf(text, "return", from)
  IN  IF p = -1 THEN None
      ELSE LET g == SkipSpaces(text, p + 6)
               e == FirstAtEnd(text, ";", g)
           IN  IF IsSpace(At(text, p + 6)) /\ e # -1
               THEN Some(trim(Substring(text, g, e)))
               ELSE BodyMultiReturnFrom(text, p + 1)

extractRenderCode(storyContent) ==
  LET renderMatch == RenderMatchFrom(storyContent, 0)
  IN  IF renderMatch = None
      THEN IF ParenReturnFrom(storyContent, 0) # None
           THEN ParenReturnFrom(storyContent, 0)
           ELSE SimpleReturnFrom(storyContent, 0)
      ELSE LET renderCode == trim(renderMatch[1])
           IN  IF BodyParenReturnFrom(renderCode, 0) # None
               THEN BodyParenReturnFrom(renderCode, 0)
               ELSE IF BodyLineReturnFrom(renderCode, 0) # None
               THEN BodyLineReturnFrom(renderCode, 0)
               ELSE BodyMultiReturnFrom(renderCode, 0)

(***************************************************************************)
(* Story constructors.  A record always carries the five fields of the     *)
(* Story type; a field the constructor does not set is absent.             *)
(***************************************************************************)
createApiStory(storyContent) ==
  [name        |-> "API",
   type        |-> "api",
   displayName |-> None,
   description |-> extractApiDescription(storyContent),
   code        |-> None]

createDemoStory(storyName, storyContent) ==
  [name        |-> storyName,
   type        |-> "demo",
   displayName |-> extractStoryName(storyContent),
   description |-> extractStoryDescription(storyContent),
   code        |-> extractRenderCode(storyContent)]

(***************************************************************************)
(* Inputs: a file is up to MaxBlocks blocks of text, one after the other.  *)
(***************************************************************************)
MaxBlocks == 2

MetaOpen ==
  "const meta = {\n  component: " \o BT \o "A button." \o BT \o "\n};"

ExportDefault == "export default meta;"

MetaFull == MetaOpen \o "\n" \o ExportDefault

MetaNoComponent == "const meta = {\n  title: " \o BT \o "B" \o BT \o "\n};"

MetaNoBacktick == "const meta: Meta = {\n  component: Button\n};"

ComponentOnly == "  component: " \o BT \o "C" \o BT

PrimaryHeader == "export const Primary: Story = {"

\* Scenario A: name, story, render in this order
Primary ==
  PrimaryHeader
    \o "\n  name: 'Main',\n  story: 'desc',\n  render: () => { return (<X/>); }\n};"

\* Scenario B on one line
SecondaryOneLine == "export const Secondary = () => { return <Y/>; };"

\* Scenario B laid out as in the sample file
SecondaryLines == "export const Secondary = () => {\n  return <Y/>;\n};"

ApiHeader == "export const API: Story = {"

ApiStory(t) == ApiHeader \o "\n  story: " \o BT \o t \o BT \o "\n};"

PropsText == "\n## Props\n"

BraceText == "a }\nb"

FenceText == BS \o BT \o "x" \o BS \o BT

ApiNoStory == ApiHeader \o "\n  name: 'x'\n};"

ApiFunction == "export const API = () => {\n  return <A/>;\n};"

LowerApi == "export const api: Story = {\n  story: 'd'\n};"

MixedApi == "export const Api = () => {\n};"

Variant == "export const Third: Story = (args) => {\n  return <Z/>;\n};"

Unclosed == "export const Open: Story = {\n  name: 'o',"

\* an object whose closing brace shares its line with a brace that opens
\* the next statement
Reopen == "export const Re: Story = {\n  a: 1 }; const o = {\n  b: 2\n};"

Blocks ==
  { MetaFull, MetaOpen, ExportDefault, MetaNoComponent, MetaNoBacktick,
    ComponentOnly, Primary, SecondaryOneLine, SecondaryLines,
    ApiStory(PropsText), ApiStory(BraceText), ApiStory(FenceText),
    ApiNoStory, ApiFunction, LowerApi, MixedApi, Variant, Unclosed,
    "// note", "  " \o ApiHeader, Reopen }

BlockSeqs == UNION {[1..n -> Blocks] : n \in 0..MaxBlocks}

Files == {join(bs) : bs \in BlockSeqs}

(***************************************************************************)
(* parseStoriesFile: parseMetaData, then parseStoryExports, whose while    *)
(* loop takes one step per iteration.                                      *)
(***************************************************************************)
Init ==
  /\ content \in Files
  /\ pc = "parseMetaData"
  /\ meta = None
  /\ lines = <<>>
  /\ i = 0
  /\ stories = <<>>
  /\ origin = <<>>
  /\ startPos = 0
  /\ result = None
  /\ IdleOthers

ParseMetaData ==
  /\ pc = "parseMetaData"
  /\ meta' = parseMetaData(content)
  /\ pc' = "parseStoryExports"
  /\ UNCHANGED <<content, lines, i, stories, origin, startPos, result, otherVars>>

\* an entry that keeps the story list of the call before
MutEnterParseStoryExports ==
  /\ pc = "parseStoryExports"
  /\ lines' = split(content)
  /\ i' = 0
  /\ pc' = "scan"
  /\ UNCHANGED <<content, meta, stories, origin, startPos, result, otherVars>>

\* the entry of parseStoryExports: stories = [], lines = split, i = 0
EnterParseStoryExports ==
  /\ pc = "parseStoryExports"
  /\ stories' = <<>>
  /\ lines' = split(content)
  /\ i' = 0
  /\ pc' = "scan"
  /\ UNCHANGED <<content, meta, origin, startPos, result, otherVars>>

\* the dispatch on the name, made blind to letter case
MutStoryFor(ls, k) ==
  LET m            == StoryMatch(ls[k + 1])
      storyName    == m.match[1]
      storyContent == IF m.isObjectFormat
                      THEN extractStoryContent(ls, k)
                      ELSE extractFunctionStoryContent(ls, k)
  IN  IF storyName \in {"API", "Api", "api"}
      THEN createApiStory(storyContent)
      ELSE createDemoStory(storyName, storyContent)

\* the record pushed for the header on line k (0-based)
StoryFor(ls, k) ==
  LET m            == StoryMatch(ls[k + 1])
      storyName    == m.match[1]
      storyContent == IF m.isObjectFormat
                      THEN extractStoryContent(ls, k)
                      ELSE extractFunctionStoryContent(ls, k)
  IN  IF storyName = "API"
      THEN createApiStory(storyContent)
      ELSE createDemoStory(storyName, storyContent)

\* a cursor that steps over the header line only
MutAdvance(ls, k) == 1

\* the number of lines the cursor skips for the header on line k
Advance(ls, k) ==
  IF StoryMatch(ls[k + 1]).isObjectFormat
  THEN countStoryLines(ls, k)
  ELSE countFunctionStoryLines(ls, k)

\* a push that merges a record into an earlier one of the same name
MutPush(list, story) ==
  IF \E k \in 1..Len(list) : list[k].name = story.name
  THEN [k \in 1..Len(list) |->
          IF list[k].name = story.name THEN story ELSE list[k]]
  ELSE Append(list, story)

\* stories.push(story)
Push(list, story) == Append(list, story)

\* an iteration on a header line: push the record and skip its lines
EmitStory ==
  /\ pc = "scan"
  /\ i < Len(lines)
  /\ StoryMatch(lines[i + 1]).match # None
  /\ stories' = Push(stories, StoryFor(lines, i))
  /\ origin' = Append(origin, i)
  /\ i' = i + Advance(lines, i)
  /\ UNCHANGED <<content, pc, meta, lines, startPos, result, otherVars>>

\* an iteration on a non-header line that forgets i++
MutSkipLine ==
  /\ pc = "scan"
  /\ i < Len(lines)
  /\ StoryMatch(lines[i + 1]).match = None
  /\ UNCHANGED vars

\* an iteration on any other line: i++
SkipLine ==
  /\ pc = "scan"
  /\ i < Len(lines)
  /\ StoryMatch(lines[i + 1]).match = None
  /\ i' = i + 1
  /\ UNCHANGED <<content, pc, meta, lines, stories, origin, startPos, result, otherVars>>

\* the loop ends: return stories
ReturnStories ==
  /\ pc = "scan"
  /\ i >= Len(lines)
  /\ pc' = "done"
  /\ UNCHANGED <<content, meta, lines, i, stories, origin, startPos, result, otherVars>>

Next ==
  \/ ParseMetaData
  \/ EnterParseStoryExports
  \/ EmitStory
  \/ SkipLine
  \/ ReturnStories

Spec == Init /\ [][Next]_vars

(***************************************************************************)
(* The loops of parseStoryExports one iteration at a time: the scan over   *)
(* the lines and, for each header, the loop of countStoryLines or          *)
(* countFunctionStoryLines that decides how far the cursor jumps.          *)
(***************************************************************************)
ScanBlocks ==
  { MetaOpen, Primary, SecondaryOneLine, SecondaryLines, ApiStory(BraceText),
    Variant, Unclosed, "// note" }

ScanFiles ==
  {join(bs) : bs \in UNION {[1..n -> ScanBlocks] : n \in 0..MaxBlocks}}

\* the record parseStoryExports builds for each header line of each input
\* (line index 0-based), tabulated
ScanRecords ==
  [text \in ScanFiles |->
     LET ls == split(text)
     IN  [k \in {h \in 0..(Len(ls) - 1) : StoryMatch(ls[h + 1]).match # None}
            |-> StoryFor(ls, k)]]

\* the state at the head of the while loop of parseStoryExports
InitScan ==
  /\ content \in ScanFiles
  /\ pc = "scan"
  /\ meta = None
  /\ lines = split(content)
  /\ i = 0
  /\ stories = <<>>
  /\ origin = <<>>
  /\ startPos = 0
  /\ result = None
  /\ IdleOthers

\* an iteration on a header line, up to the entry of the counting function:
\* the record is pushed, then braceLevel = 1, lineCount = 1, i = startIndex + 1
CallCountLines ==
  /\ pc = "scan"
  /\ i < Len(lines)
  /\ StoryMatch(lines[i + 1]).match # None
  /\ stories' = Push(stories, ScanRecords[content][i])
  /\ origin' = Append(origin, i)
  /\ pc' = IF StoryMatch(lines[i + 1]).isObjectFormat
           THEN "countStoryLines"
           ELSE "countFunctionStoryLines"
  /\ countI' = i + 1
  /\ countLevel' = 1
  /\ countLines' = 1
  /\ UNCHANGED <<content, meta, lines, i, startPos, result,
               nonParserVars>>

\* one iteration of the while loop of countStoryLines
CountStoryLinesStep ==
  /\ pc = "countStoryLines"
  /\ countI < Len(lines)
  /\ countLevel > 0
  /\ countLevel' = BraceLevelAfter(lines[countI + 1], 0, countLevel)
  /\ countLines' = countLines + 1
  /\ countI' = countI + 1
  /\ UNCHANGED <<content, pc, meta, lines, i, stories, origin, startPos, result,
               nonParserVars>>

\* one iteration of the while loop of countFunctionStoryLines
CountFunctionStoryLinesStep ==
  /\ pc = "countFunctionStoryLines"
  /\ countI < Len(lines)
  /\ countLevel > 0
  /\ countLevel' = BraceLevelAfter(lines[countI + 1], 0, countLevel)
  /\ countLines' = countLines + 1
  /\ countI' = countI + 1
  /\ UNCHANGED <<content, pc, meta, lines, i, stories, origin, startPos, result,
               nonParserVars>>

\* the counting loop ends: return lineCount, and i += lineCount
ReturnLineCount ==
  /\ pc \in {"countStoryLines", "countFunctionStoryLines"}
  /\ ~(countI < Len(lines) /\ countLevel > 0)
  /\ i' = i + countLines
  /\ pc' = "scan"
  /\ countI' = 0
  /\ countLevel' = 0
  /\ countLines' = 0
  /\ UNCHANGED <<content, meta, lines, stories, origin, startPos, result,
               nonParserVars>>

NextScan ==
  \/ CallCountLines
  \/ CountStoryLinesStep
  \/ CountFunctionStoryLinesStep
  \/ ReturnLineCount
  \/ SkipLine
  \/ ReturnStories

\* parseStoryExports is synchronous code: once entered, each loop keeps
\* taking its next iteration until its condition fails
SpecScan == InitScan /\ [][NextScan]_vars /\ WF_vars(NextScan)

(***************************************************************************)
(* createDemoStory on its own: the body of an export is up to MaxBodyLines *)
(* lines out of the shapes the field extractors look for.                  *)
(***************************************************************************)
MaxBodyLines == 3

BodyLinePool ==
  { "  name: 'Main',",
    "  name: \"Don't\",",
    "  story: 'desc',",
    "  story: { a: 'x' },",
    "  story: \"e\"",
    "  history: 'h',",
    "  args: { n: 1 },",
    "  render: () => <X/>,",
    "};" }

Bodies ==
  {join(ls) : ls \in UNION {[1..n -> BodyLinePool] : n \in 0..MaxBodyLines}}

InitFields ==
  /\ content \in Bodies
  /\ pc = "createDemoStory"
  /\ result = None
  /\ meta = None
  /\ lines = <<>>
  /\ i = 0
  /\ stories = <<>>
  /\ origin = <<>>
  /\ startPos = 0
  /\ IdleOthers

CallCreateDemoStory ==
  /\ pc = "createDemoStory"
  /\ result' = Some(createDemoStory("Demo", content))
  /\ pc' = "returned"
  /\ UNCHANGED <<content, meta, lines, i, stories, origin, startPos, otherVars>>

NextFields == CallCreateDemoStory

SpecFields == InitFields /\ [][NextFields]_vars

(***************************************************************************)
(* extractBacktickContent on its own: every short text over the characters *)
(* that matter to it, and the example of its doc comment, from every       *)
(* position that holds a backtick.                                         *)
(***************************************************************************)
MaxLen == 4

BtAlphabet == {BT, BS, "a", " "}

RECURSIVE Concat(_)
Concat(cs) == IF Len(cs) = 0 THEN "" ELSE Head(cs) \o Concat(Tail(cs))

\* the example of the doc comment, with X, Y, Z for its words
DocExample == BT \o "X" \o BS \o BT \o "Y" \o BS \o BT \o "Z" \o BT

BtTexts ==
  {Concat(cs) : cs \in UNION {[1..n -> BtAlphabet] : n \in 1..MaxLen}}
    \cup {DocExample}

InitBacktick ==
  /\ content \in BtTexts
  /\ startPos \in {k \in 0..(Len(content) - 1) : At(content, k) = BT}
  /\ pc = "extractBacktickContent"
  /\ result = None
  /\ meta = None
  /\ lines = <<>>
  /\ i = 0
  /\ stories = <<>>
  /\ origin = <<>>
  /\ IdleOthers

CallExtractBacktickContent ==
  /\ pc = "extractBacktickContent"
  /\ result' = Some(extractBacktickContent(content, startPos))
  /\ pc' = "returned"
  /\ UNCHANGED <<content, meta, lines, i, stories, origin, startPos, otherVars>>

NextBacktick == CallExtractBacktickContent

SpecBacktick == InitBacktick /\ [][NextBacktick]_vars

(***************************************************************************)
(* Properties.                                                             *)
(***************************************************************************)
Min(S) == CHOOSE k \in S : \A j \in S : k <= j

\* the positions of the text where pat occurs
Occurrences(text, pat) ==
  {k \in 0..(Len(text) - Len(pat)) : StartsWithAt(text, pat, k)}

StoryTypes == {"api", "demo"}

IsOptional(v) == v = None \/ (Len(v) = 1 /\ v[1] \in STRING)

\* C1: parseMetaData and parseStoryExports return a value and never raise
\* for every input: the line the cursor reads is a line of the text, the
\* name of a pushed record was captured, and the values returned are a
\* MetaData or null and a sequence of Story records; for the empty text
\* parseMetaData returns null and parseStoryExports the empty sequence.
C1_NeverRaises ==
  /\ pc \in {"parseMetaData", "parseStoryExports", "scan", "done"}
  /\ pc = "scan" =>
       /\ i >= 0
       /\ Len(lines) >= 1
       /\ i < Len(lines) => lines[i + 1] \in STRING
  /\ pc # "parseMetaData" =>
       \/ meta = None
       \/ Len(meta) = 1 /\ meta[1].componentDescription \in STRING
  /\ \A k \in 1..Len(stories) :
       /\ stories[k].type \in StoryTypes
       /\ stories[k].name \in STRING
       /\ stories[k].name # ""
       /\ IsOptional(stories[k].displayName)
       /\ IsOptional(stories[k].description)
       /\ IsOptional(stories[k].code)
  /\ (pc = "done" /\ content = "") => (meta = None /\ stories = <<>>)

C1_Witness == pc = "done" /\ content = "" /\ meta = None /\ stories = <<>>

\* the name captured by the header pattern that matches the line
CapturedName(line) == StoryMatch(line).match[1]

\* C2: the records are listed in the order of their export headers (a
\* header on an earlier line gives a record of smaller index), every header
\* the cursor processed has a record of its own carrying its name, and so
\* two exports of the same name give two records, the later one after the
\* earlier one.
C2_ExportOrder ==
  /\ Len(stories) = Len(origin)
  /\ \A a, b \in 1..Len(origin) : origin[a] < origin[b] <=> a < b
  /\ \A a \in 1..Len(origin) :
       CapturedName(lines[origin[a] + 1]) = stories[a].name

C2_Witness ==
  /\ pc = "done"
  /\ \E a, b \in 1..Len(stories) :
       /\ a < b
       /\ stories[a].name = stories[b].name
       /\ origin[a] < origin[b]

\* the line is an export header, of any of the three shapes, that declares
\* the name API
IsApiHeader(line) ==
  \/ MatchObjectHeader(line) = Some("API")
  \/ MatchFunctionHeader(line) = Some("API")
  \/ MatchFunctionVariantHeader(line) = Some("API")

ApiRecords == {k \in 1..Len(stories) : stories[k].type = "api"}

\* C3: when the text holds exactly one export header that declares the name
\* API, parseStoryExports returns exactly one record of type api.
C3_OneApiRecord ==
  (pc = "done"
     /\ Cardinality({k \in 1..Len(lines) : IsApiHeader(lines[k])}) = 1)
  => Cardinality(ApiRecords) = 1

\* C4: a record has type api exactly when the captured export name is the
\* string API (Api and api give demo); every other record has type demo;
\* every record carries the captured name unchanged.
C4_TypeByName ==
  \A k \in 1..Len(stories) :
    LET captured == CapturedName(lines[origin[k] + 1])
    IN  /\ stories[k].type = "api" <=> captured = "API"
        /\ stories[k].type = "demo" <=> captured # "API"
        /\ stories[k].name = captured

C4_Witness ==
  /\ pc = "done"
  /\ \E a, b \in 1..Len(stories) :
       /\ stories[a].name \in {"Api", "api"}
       /\ stories[a].type = "demo"
       /\ stories[b].name = "API"
       /\ stories[b].type = "api"

\* the first configuration-declaration marker of the text, -1 when none
MarkerPos ==
  LET hits == Occurrences(content, "const meta")
  IN  IF hits = {} THEN -1 ELSE Min(hits)

\* the first 'export default meta' at or after the marker, -1 when none
DefaultPos ==
  LET from == MarkerPos
      hits == {k \in Occurrences(content, "export default meta") : k >= from}
  IN  IF hits = {} THEN -1 ELSE Min(hits)

\* the positions of 'component:' keys that lie inside the block
ComponentKeys ==
  LET from == MarkerPos
      to == DefaultPos
  IN  {k \in Occurrences(content, "component:") :
         from <= k /\ k + Len("component:") <= to}

\* the backticks of the block that come after its first component: key
BackticksAfterKey ==
  LET from == Min(ComponentKeys)
      to == DefaultPos
  IN  {k \in Occurrences(content, BT) : from <= k /\ k < to}

\* some lookup step of parseMetaData misses on the text
MetaLookupMisses ==
  \/ MarkerPos = -1
  \/ DefaultPos = -1
  \/ ComponentKeys = {}
  \/ BackticksAfterKey = {}

\* C5: parseMetaData returns null whenever a lookup step misses (no
\* marker, no 'export default meta' after it, no component: key in the
\* block, no backtick after the key in the block); a record it returns
\* has a componentDescription that is a string.
C5_MetaAbsentOnMiss ==
  pc # "parseMetaData" =>
    /\ meta = None \/ ~MetaLookupMisses
    /\ meta # None => meta[1].componentDescription \in STRING

\* a block with a backtick but no component: key
C5_Witness ==
  /\ pc = "done"
  /\ MarkerPos # -1
  /\ DefaultPos # -1
  /\ ComponentKeys = {}
  /\ \E k \in Occurrences(content, BT) : MarkerPos <= k /\ k < DefaultPos
  /\ meta = None

\* C6: Scenario A: the description is "A button." and the first record is
\* the example Primary with displayName "Main", description "desc" and
\* code "<X/>".
C6_ScenarioA ==
  (pc = "done" /\ content = MetaFull \o "\n" \o Primary) =>
    /\ meta = Some([componentDescription |-> "A button."])
    /\ Len(stories) >= 1
    /\ stories[1] = [name        |-> "Primary",
                     type        |-> "demo",
                     displayName |-> Some("Main"),
                     description |-> Some("desc"),
                     code        |-> Some("<X/>")]

\* C7: Scenario B: the bare inline function Secondary, written on one line
\* or over several lines, gives one example record named Secondary with no
\* displayName, no description and code "<Y/>".
C7_ScenarioB ==
  (pc = "done" /\ content \in {SecondaryOneLine, SecondaryLines}) =>
    stories = <<[name        |-> "Secondary",
                 type        |-> "demo",
                 displayName |-> None,
                 description |-> None,
                 code        |-> Some("<Y/>")]>>

ApiTexts == {PropsText, BraceText, FenceText}

\* C8: Scenario C: for an object-shaped export API whose body holds story:
\* and a backtick-delimited text T, the description of the api record is T
\* trimmed, for every T; it is absent when the body has no story:.
C8_ApiDescription ==
  /\ \A t \in ApiTexts :
       (pc = "done" /\ content = ApiStory(t)) =>
         /\ Len(stories) = 1
         /\ stories[1].type = "api"
         /\ stories[1].description = Some(trim(t))
  /\ (pc = "done" /\ content = ApiNoStory) =>
       /\ Len(stories) = 1
       /\ stories[1].description = None

\* the number of consecutive backslashes right before position p
BackslashRun(text, p) ==
  CHOOSE n \in 0..p :
    /\ \A j \in 1..n : At(text, p - j) = BS
    /\ n = p \/ At(text, p - n - 1) # BS

\* the backticks after the opening one with an even run of backslashes
\* before them
UnescapedBackticks ==
  {p \in (startPos + 1)..(Len(content) - 1) :
     At(content, p) = BT /\ BackslashRun(content, p) % 2 = 0}

\* where the span ends: the first unescaped backtick, or the end of text
SpanEnd ==
  IF UnescapedBackticks = {} THEN Len(content) ELSE Min(UnescapedBackticks)

\* the backticks inside the span; each has an odd run of backslashes
EscapedInSpan ==
  {p \in (startPos + 1)..(SpanEnd - 1) : At(content, p) = BT}

\* the number of backticks in a text
BacktickCount(text) == Cardinality(Occurrences(text, BT))

\* C9: extractBacktickContent does not stop at a backtick preceded by an
\* odd number of backslashes: the span ends only at the first backtick
\* after the opening one that has an even number of backslashes before it,
\* and every escaped backtick before that one is copied into the result.
C9_EscapedBacktickKept ==
  pc = "returned" =>
    /\ result = Some(trim(Substring(content, startPos + 1, SpanEnd)))
    /\ BacktickCount(result[1]) = Cardinality(EscapedInSpan)

C9_Witness ==
  /\ pc = "returned"
  /\ EscapedInSpan # {}
  /\ UnescapedBackticks # {}
  /\ BacktickCount(result[1]) >= 1

\* C10: the example of the doc comment: the span X\`Y\`Z is extracted as
\* X`Y`Z, each escaped backtick without the backslash that escaped it.
C10_DocExample ==
  (pc = "returned" /\ content = DocExample /\ startPos = 0) =>
    result = Some("X" \o BT \o "Y" \o BT \o "Z")

(***************************************************************************)
(* parseStoriesFile called again.  A later call finds whatever the earlier *)
(* calls left behind: the call actions below touch none of meta, lines, i  *)
(* and stories, so a second result can only equal the first because each   *)
(* function initialises what it reads.  result keeps the first call's      *)
(* return value and the text it was made on.                               *)
(***************************************************************************)
RerunBlocks ==
  { MetaFull, Primary, SecondaryOneLine, ApiStory(PropsText), Unclosed,
    "// note" }

RerunFiles ==
  {join(bs) : bs \in UNION {[1..n -> RerunBlocks] : n \in 0..MaxBlocks}}

\* the text of a call made between the two calls that are compared
OtherText == MetaNoComponent \o "\n" \o Variant \o "\n" \o LowerApi

InitRerun ==
  /\ content \in RerunFiles
  /\ pc = "parseMetaData"
  /\ meta = None
  /\ lines = <<>>
  /\ i = 0
  /\ stories = <<>>
  /\ origin = <<>>
  /\ startPos = 0
  /\ result = None
  /\ IdleOthers

\* the first call has returned: parseStoriesFile is called on another text
CallOther ==
  /\ pc = "done"
  /\ result = None
  /\ result' = Some([meta |-> meta, storyExports |-> stories,
                     text |-> content, others |-> 1, again |-> FALSE])
  /\ content' = OtherText
  /\ origin' = <<>>
  /\ pc' = "parseMetaData"
  /\ UNCHANGED <<meta, lines, i, stories, startPos, otherVars>>

\* parseStoriesFile is called once more on the text of the first call
CallAgain ==
  /\ pc = "done"
  /\ \/ /\ result = None
        /\ result' = Some([meta |-> meta, storyExports |-> stories,
                           text |-> content, others |-> 0, again |-> TRUE])
        /\ content' = content
     \/ /\ result # None
        /\ ~result[1].again
        /\ result' = Some([result[1] EXCEPT !.again = TRUE])
        /\ content' = result[1].text
  /\ origin' = <<>>
  /\ pc' = "parseMetaData"
  /\ UNCHANGED <<meta, lines, i, stories, startPos, otherVars>>

NextRerun ==
  \/ ParseMetaData
  \/ EnterParseStoryExports
  \/ EmitStory
  \/ SkipLine
  \/ ReturnStories
  \/ CallOther
  \/ CallAgain

SpecRerun == InitRerun /\ [][NextRerun]_vars

\* C11: a second call of parseMetaData and parseStoryExports on the same
\* text returns the meta and the story list of the first call, whether or
\* not a call on another text was made in between.
C11_SameResultAgain ==
  (pc = "done" /\ result # None /\ result[1].again)
    => /\ content = result[1].text
       /\ meta = result[1].meta
       /\ stories = result[1].storyExports

\* a second call has returned after a call on another text, on a file with
\* a description and a record
C11_Witness ==
  /\ pc = "done"
  /\ result # None
  /\ result[1].again
  /\ result[1].others = 1
  /\ meta # None
  /\ Len(stories) >= 1
  /\ stories = result[1].storyExports

\* the lines captured for the header on line k, by the function its format
\* selects
CapturedLines(ls, k) ==
  IF StoryMatch(ls[k + 1]).isObjectFormat
  THEN StoryLines(ls, k)
  ELSE FunctionStoryContentLoop(ls, k + 1, 1, <<>>)

\* both counters against both captures, from every line of the file
CountsAgree ==
  \A k \in 0..(Len(lines) - 1) :
    /\ countStoryLines(lines, k) = Len(StoryLines(lines, k)) + 1
    /\ countFunctionStoryLines(lines, k)
         = Len(FunctionStoryContentLoop(lines, k + 1, 1, <<>>)) + 1

\* C17: from every line index, countStoryLines and countFunctionStoryLines
\* return the number of lines their capture functions take plus one, and
\* the iteration that pushes a record moves the cursor to the line right
\* after the last captured line.
C17_CountIsCapturedPlusOne ==
  /\ []((pc = "scan" /\ i = 0) => CountsAgree)
  /\ [][Len(stories') > Len(stories)
          => i' = i + Len(CapturedLines(lines, i)) + 1]_vars

\* a record with a body of three lines or more has just been pushed and the
\* cursor stands on the line after the body, inside the file
C17_Witness ==
  /\ pc = "scan"
  /\ origin # <<>>
  /\ Len(CapturedLines(lines, origin[Len(origin)])) >= 3
  /\ i = origin[Len(origin)] + Len(CapturedLines(lines, origin[Len(origin)])) + 1
  /\ i < Len(lines)

\* the 0-based indices of the lines captured for the a-th record
BodyIndices(a) ==
  (origin[a] + 1)..(origin[a] + Len(CapturedLines(lines, origin[a])))

\* C18: the line the scan is about to test lies in no captured body, the
\* header of every record lies outside the bodies captured for the records
\* before it, and no line of a captured body is the header of a record.
C18_BodyNeverRescanned ==
  pc \in {"scan", "done"} =>
    /\ \A a \in 1..Len(origin) :
         /\ (pc = "scan" /\ i < Len(lines)) => i \notin BodyIndices(a)
         /\ \A b \in 1..Len(origin) : origin[b] \notin BodyIndices(a)
         /\ \A b \in (a + 1)..Len(origin) : origin[b] > origin[a]
    /\ Len(origin) = Len(stories)

\* the scan has ended with a header-shaped line inside a captured body and
\* no record for that line
C18_Witness ==
  /\ pc = "done"
  /\ \E a \in 1..Len(origin) : \E k \in BodyIndices(a) :
       /\ StoryMatch(lines[k + 1]).match # None
       /\ \A b \in 1..Len(origin) : origin[b] # k

\* opening minus closing braces of one line
NetBraces(line) ==
  Cardinality(Occurrences(line, "{")) - Cardinality(Occurrences(line, "}"))

\* the nesting depth at the end of line j (0-based) for a header on line k
RECURSIVE DepthAtEnd(_, _, _)
DepthAtEnd(ls, k, j) ==
  IF j <= k THEN 1 ELSE DepthAtEnd(ls, k, j - 1) + NetBraces(ls[j + 1])

\* the braces opened by the header on line k are never closed
NeverCloses(ls, k) == \A j \in (k + 1)..(Len(ls) - 1) : DepthAtEnd(ls, k, j) > 0

\* C15: every iteration of the scan moves the line cursor forward by at
\* least one line, the counting loop never reads past the last line, an
\* export whose braces never close moves the cursor to the end of the line
\* array, and the scan always reaches its return.
C15_ScanTerminates ==
  /\ [][pc' = "scan" => i' >= i + 1]_vars
  /\ [](countI <= Len(lines))
  /\ [][(pc # "scan" /\ pc' = "scan" /\ NeverCloses(lines, i))
          => i' = Len(lines)]_vars
  /\ <>(pc = "done")

\* the scan has returned after an export whose braces never close, which
\* took two lines or more
C15_Witness ==
  /\ pc = "done"
  /\ origin # <<>>
  /\ NeverCloses(lines, origin[Len(origin)])
  /\ origin[Len(origin)] + 2 < Len(lines)
  /\ i = Len(lines)

\* the lines after the header on line k, up to and including line z
\* (0-based), or up to the last line when z is -1
LinesThrough(ls, k, z) == SubSeq(ls, k + 2, IF z = -1 THEN Len(ls) ELSE z + 1)

\* the first line after the header on line k at whose end the depth is zero
\* or less
FirstClosedLine(ls, k) ==
  First({j \in (k + 1)..(Len(ls) - 1) : DepthAtEnd(ls, k, j) <= 0})

\* the first line after the header on line k on which the depth is zero
\* after some character
FirstZeroLine(ls, k) ==
  First({j \in (k + 1)..(Len(ls) - 1) :
           \E p \in 1..Len(ls[j + 1]) :
             DepthAtEnd(ls, k, j - 1) + NetBraces(SubSeq(ls[j + 1], 1, p)) = 0})

\* C19 as stated: the captured body is every line after the header up to
\* and including the first line on which the depth, started at 1, reaches
\* zero, also when a later brace of that line reopens it.
C19_CaptureToZeroLine ==
  pc = "done" =>
    \A a \in 1..Len(origin) :
      CapturedLines(lines, origin[a])
        = LinesThrough(lines, origin[a], FirstZeroLine(lines, origin[a]))

\* C19 amended: the captured body is every line after the header up to and
\* including the first line at whose end the depth, started at 1, is zero
\* or less, and every line to the end of the text when there is none; a line
\* that reaches zero and reopens does not end the capture.
C19_CaptureToClosedLine ==
  pc = "done" =>
    \A a \in 1..Len(origin) :
      CapturedLines(lines, origin[a])
        = LinesThrough(lines, origin[a], FirstClosedLine(lines, origin[a]))

\* a record whose body reached depth zero on a line that reopened it, with
\* the capture going on to a later line that closes it, lines following
C19_Witness ==
  /\ pc = "done"
  /\ \E a \in 1..Len(origin) :
       /\ FirstZeroLine(lines, origin[a]) # -1
       /\ FirstZeroLine(lines, origin[a]) < FirstClosedLine(lines, origin[a])
       /\ FirstClosedLine(lines, origin[a]) < Len(lines) - 1

\* the position of the first story: of the body, -1 when there is none
StoryKeyPos == First(Occurrences(content, "story:"))

\* the position of the first closing brace after that story:, -1 when
\* there is none
StoryBracePos ==
  IF StoryKeyPos = -1 THEN -1
  ELSE First({k \in Occurrences(content, "}") : k >= StoryKeyPos + 6})

\* where the text between the two ends: at the comma that stands directly
\* before the brace, whitespace apart, and at the brace otherwise
StoryTextEnd ==
  LET t == SkipSpacesBack(content, StoryBracePos)
  IN  IF t - 1 >= StoryKeyPos + 6 /\ At(content, t - 1) = ","
      THEN t - 1
      ELSE StoryBracePos

Truthy(opt) == opt # None /\ opt[1] # ""

\* a MetaData object without componentDescription
EmptyMeta == [k \in {} |-> ""]

HasComponentDescription(m) ==
  /\ m # None
  /\ "componentDescription" \in DOMAIN m[1]
  /\ m[1].componentDescription # ""

generateTitle(name) == "# " \o name \o "\n\n"

generateDescription(m) ==
  IF ~HasComponentDescription(m) THEN ""
  ELSE m[1].componentDescription \o "\n\n"

\* the heading of the examples section; the source writes the word in
\* Chinese
ExamplesHeading == "## Examples\n\n"

Fence == BT \o BT \o BT

\* story.displayName || story.name
DisplayNameOf(story) ==
  IF Truthy(story.displayName) THEN story.displayName[1] ELSE story.name

\* a callback that writes the description paragraph without testing it
MutDemoMarkdown(story) ==
  ("### " \o DisplayNameOf(story) \o "\n\n")
    \o (IF story.description # None THEN story.description[1] ELSE "") \o "\n\n"
    \o (IF Truthy(story.code)
        THEN Fence \o "tsx\n" \o story.code[1] \o "\n" \o Fence \o "\n\n"
        ELSE "")

\* the text one pass of the forEach callback adds
DemoMarkdown(story) ==
  ("### " \o DisplayNameOf(story) \o "\n\n")
    \o (IF Truthy(story.description)
        THEN story.description[1] \o "\n\n" ELSE "")
    \o (IF Truthy(story.code)
        THEN Fence \o "tsx\n" \o story.code[1] \o "\n" \o Fence \o "\n\n"
        ELSE "")

RECURSIVE DemoLoop(_, _)
DemoLoop(demoStories, markdown) ==
  IF demoStories = <<>> THEN markdown
  ELSE DemoLoop(Tail(demoStories), markdown \o DemoMarkdown(Head(demoStories)))

IsDemo(story) == story.type = "demo"

IsApi(story) == story.type = "api"

generateDemoExamples(storyExports) ==
  LET demoStories == SelectSeq(storyExports, IsDemo)
  IN  IF Len(demoStories) = 0 THEN ""
      ELSE DemoLoop(demoStories, ExamplesHeading)

\* a lookup of the first 'api' record that has a description
MutGenerateApiDocumentation(storyExports) ==
  LET found == SelectSeq(storyExports,
                         LAMBDA s : IsApi(s) /\ Truthy(s.description))
  IN  IF found = <<>> THEN "" ELSE found[1].description[1] \o "\n"

generateApiDocumentation(storyExports) ==
  LET found == SelectSeq(storyExports, IsApi)
  IN  IF found = <<>> THEN ""
      ELSE IF ~Truthy(found[1].description) THEN ""
      ELSE found[1].description[1] \o "\n"

\* sections.filter(section => section).join('')
RECURSIVE JoinSections(_)
JoinSections(sections) ==
  IF sections = <<>> THEN ""
  ELSE IF Head(sections) = "" THEN JoinSections(Tail(sections))
  ELSE Head(sections) \o JoinSections(Tail(sections))

\* the sections joined in the order of the records: an API record that
\* comes first is rendered before the examples
MutGenerateMarkdownContent(data, name) ==
  IF data.storyExports # <<>> /\ IsApi(Head(data.storyExports))
  THEN JoinSections(<< generateTitle(name),
                       generateDescription(data.meta),
                       generateApiDocumentation(data.storyExports),
                       generateDemoExamples(data.storyExports) >>)
  ELSE JoinSections(<< generateTitle(name),
                       generateDescription(data.meta),
                       generateDemoExamples(data.storyExports),
                       generateApiDocumentation(data.storyExports) >>)

generateMarkdownContent(data, name) ==
  JoinSections(<< generateTitle(name),
                  generateDescription(data.meta),
                  generateDemoExamples(data.storyExports),
                  generateApiDocumentation(data.storyExports) >>)

(***************************************************************************)
(* generateMarkdownContent on its own, for every StoriesData of up to      *)
(* MaxStories records.                                                     *)
(***************************************************************************)
MaxStories == 3

DemoFull ==
  [name |-> "Primary", type |-> "demo", displayName |-> Some("Main"),
   description |-> Some("First demo."), code |-> Some("<X/>")]

DemoBare ==
  [name |-> "Secondary", type |-> "demo", displayName |-> None,
   description |-> None, code |-> None]

DemoEmptyName ==
  [name |-> "Third", type |-> "demo", displayName |-> Some(""),
   description |-> Some("Third demo."), code |-> None]

DemoCodeOnly ==
  [name |-> "Fourth", type |-> "demo", displayName |-> None,
   description |-> Some(""), code |-> Some("<Y/>")]

ApiFull ==
  [name |-> "API", type |-> "api", displayName |-> None,
   description |-> Some("Props table."), code |-> None]

ApiBare ==
  [name |-> "API", type |-> "api", displayName |-> None,
   description |-> None, code |-> None]

ApiOther ==
  [name |-> "API", type |-> "api", displayName |-> None,
   description |-> Some("Events table."), code |-> None]

StoryPool ==
  {DemoFull, DemoBare, DemoEmptyName, DemoCodeOnly, ApiFull, ApiBare, ApiOther}

StoryLists == UNION {[1..n -> StoryPool] : n \in 0..MaxStories}

\* null, {}, an empty description and a description
MetaChoices ==
  << None, Some(EmptyMeta), Some([componentDescription |-> ""]),
     Some([componentDescription |-> "Config text."]) >>

InitMarkdown ==
  /\ pc = "generateMarkdownContent"
  /\ \E k \in 1..Len(MetaChoices) : \E list \in StoryLists :
       storiesData = [meta |-> MetaChoices[k], storyExports |-> list]
  /\ componentName = "Button"
  /\ markdownContent = ""
  /\ IdleParser
  /\ IdleCount
  /\ IdleBatch

CallGenerateMarkdownContent ==
  /\ pc = "generateMarkdownContent"
  /\ markdownContent' = generateMarkdownContent(storiesData, componentName)
  /\ pc' = "returned"
  /\ UNCHANGED <<storiesData, componentName, parserVars, countVars, batchVars>>

NextMarkdown == CallGenerateMarkdownContent

SpecMarkdown == InitMarkdown /\ [][NextMarkdown]_vars

\* the 'demo' records of the input, in their order
DemoRecords == SelectSeq(storiesData.storyExports, IsDemo)

\* the text of the first 'api' record, empty when there is none to render
ApiText ==
  LET found == SelectSeq(storiesData.storyExports, IsApi)
  IN  IF found # <<>> /\ Truthy(found[1].description)
      THEN found[1].description[1] ELSE ""

\* what the output has to show, in the order it has to show it
SectionMarks ==
  <<"# " \o componentName \o "\n\n">>
    \o (IF HasComponentDescription(storiesData.meta)
        THEN <<storiesData.meta[1].componentDescription \o "\n\n">>
        ELSE <<>>)
    \o (IF DemoRecords # <<>> THEN <<ExamplesHeading>> ELSE <<>>)
    \o [k \in 1..Len(DemoRecords) |->
          "### " \o DisplayNameOf(DemoRecords[k]) \o "\n\n"]
    \o (IF ApiText # "" THEN <<ApiText \o "\n">> ELSE <<>>)

\* the marks occur in the text one after the other, from position from on
RECURSIVE InOrder(_, _, _)
InOrder(text, marks, from) ==
  \/ marks = <<>>
  \/ LET p == indexOf(text, Head(marks), from)
     IN  p # -1 /\ InOrder(text, Tail(marks), p + Len(Head(marks)))

\* the positions of the text where a heading line starts
HeadingLines(text) ==
  {k \in 0..(Len(text) - 1) :
     At(text, k) = "#" /\ (k = 0 \/ At(text, k - 1) = "\n")}

\* C13: the output starts with the title, then shows the configuration
\* description if there is one, the examples heading and the sub-heading of
\* each 'demo' record in storyExports order, and ends with the text of the
\* 'api' record, which gets no heading of its own, wherever that record
\* stands among the others.
C13_SectionOrder ==
  pc = "returned" =>
    /\ StartsWithAt(markdownContent, Head(SectionMarks), 0)
    /\ InOrder(markdownContent, SectionMarks, 0)
    /\ ApiText # "" => EndsWith(markdownContent, "\n\n" \o ApiText \o "\n")
    /\ Cardinality(HeadingLines(markdownContent))
         = 1 + (IF DemoRecords # <<>> THEN 1 ELSE 0) + Len(DemoRecords)

\* an input whose API record stands before two examples, with a
\* configuration description: the API text closes the output
C13_Witness ==
  /\ pc = "returned"
  /\ HasComponentDescription(storiesData.meta)
  /\ Len(storiesData.storyExports) = 3
  /\ storiesData.storyExports[1] = ApiFull
  /\ Len(DemoRecords) = 2
  /\ DemoRecords[1] # DemoRecords[2]
  /\ EndsWith(markdownContent, Fence \o "\n\nProps table.\n")

\* the length of an optional text with the characters put around it, zero
\* for a text that is absent or empty
LengthIfAny(opt, around) == IF Truthy(opt) THEN Len(opt[1]) + around ELSE 0

\* the sum of a list of numbers
RECURSIVE SumOf(_)
SumOf(list) == IF list = <<>> THEN 0 ELSE Head(list) + SumOf(Tail(list))

\* the characters an example record accounts for when its sub-heading is
\* always written, with the export name in place of a missing displayName
DemoLength(story) ==
  (4 + Len(DisplayNameOf(story)) + 2)
    + LengthIfAny(story.description, 2)
    + LengthIfAny(story.code, 2 * Len(Fence) + 7)

\* the characters an example record accounts for when a displayName that
\* is absent adds nothing
DemoLengthNoName(story) ==
  (IF story.displayName = None THEN 0 ELSE 4 + Len(DisplayNameOf(story)) + 2)
    + LengthIfAny(story.description, 2)
    + LengthIfAny(story.code, 2 * Len(Fence) + 7)

\* the characters of the output that do not come from the example records
FrameLength ==
  (2 + Len(componentName) + 2)
    + (IF HasComponentDescription(storiesData.meta)
       THEN Len(storiesData.meta[1].componentDescription) + 2 ELSE 0)
    + (IF DemoRecords # <<>> THEN Len(ExamplesHeading) ELSE 0)
    + (IF ApiText # "" THEN Len(ApiText) + 1 ELSE 0)

\* C14 as stated: the output holds the title, the examples heading and the
\* text of each field that is there, and nothing for a field that is
\* absent: no configuration description, no sub-heading for an absent
\* displayName, no paragraph for an absent description, no fence for an
\* absent code, no text for an absent API description.
C14_AbsentFieldNoText ==
  pc = "returned" =>
    Len(markdownContent)
      = FrameLength
          + SumOf([k \in 1..Len(DemoRecords) |-> DemoLengthNoName(DemoRecords[k])])

\* C14 amended: an absent configuration description, description, code or
\* API description adds no character to the output, and no blank line; the
\* sub-heading of an example record is always written, with the export
\* name when displayName is absent.
C14_AbsentFieldNoTextButName ==
  pc = "returned" =>
    /\ Len(markdownContent)
         = FrameLength
             + SumOf([k \in 1..Len(DemoRecords) |-> DemoLength(DemoRecords[k])])
    /\ Occurrences(markdownContent, "\n\n\n") = {}
    /\ Cardinality(Occurrences(markdownContent, "\n### "))
         = Len(DemoRecords)
    /\ \A k \in 1..Len(DemoRecords) :
         DemoRecords[k].displayName = None
           => Occurrences(markdownContent,
                          "\n### " \o DemoRecords[k].name \o "\n\n") # {}

\* no configuration, an example record without displayName, description
\* and code, an API record without description: the output is the title,
\* the examples heading and the sub-heading with the export name
C14_Witness ==
  /\ pc = "returned"
  /\ storiesData.meta = None
  /\ storiesData.storyExports = <<DemoBare, ApiBare>>
  /\ markdownContent = "# Button\n\n## Examples\n\n### Secondary\n\n"

(***************************************************************************)
(* The batch driver (src/unnamed/part_000): generateComponentMarkdown and  *)
(* processComponent, one step per statement that can throw.                *)
(***************************************************************************)
\* parseStoryExports as the function it is: the scan loop run to its end
RECURSIVE StoryExportsLoop(_, _, _)
StoryExportsLoop(ls, k, acc) ==
  IF k >= Len(ls) THEN acc
  ELSE IF StoryMatch(ls[k + 1]).match # None
  THEN StoryExportsLoop(ls, k + Advance(ls, k), Push(acc, StoryFor(ls, k)))
  ELSE StoryExportsLoop(ls, k + 1, acc)

parseStoryExports(text) == StoryExportsLoop(split(text), 0, <<>>)

parseStoriesFile(fileContent) ==
  [meta |-> parseMetaData(fileContent),
   storyExports |-> parseStoryExports(fileContent)]

MaxNames == 2

NamePool == {"Button", "Input", "Modal"}

NameLists == UNION {[1..n -> NamePool] : n \in 0..MaxNames}

\* the text of each component's stories file, where the file exists
StoriesOf ==
  [name \in NamePool |->
     IF name = "Button" THEN join(<<MetaFull, Primary, ApiStory(PropsText)>>)
     ELSE IF name = "Input" THEN SecondaryOneLine
     ELSE ""]

\* what parseStoriesFile returns for each of these files
ParsedOf == [name \in NamePool |-> parseStoriesFile(StoriesOf[name])]

\* generateComponentMarkdown(componentNames) has been called
InitBatch ==
  /\ pc = "forOf"
  /\ componentNames \in NameLists
  /\ nameIndex = 0
  /\ existing \in SUBSET NamePool
  /\ written = <<>>
  /\ attempts = <<>>
  /\ errors = <<>>
  /\ promise = [state |-> "pending", value |-> None]
  /\ IdleGen
  /\ IdleParser
  /\ IdleCount

\* the for loop takes the next name and calls processComponent with it
CallProcessComponent ==
  /\ pc = "forOf"
  /\ nameIndex < Len(componentNames)
  /\ componentName' = componentNames[nameIndex + 1]
  /\ nameIndex' = nameIndex + 1
  /\ attempts' = Append(attempts, componentNames[nameIndex + 1])
  /\ pc' = "validateStoriesFile"
  /\ UNCHANGED <<storiesData, markdownContent, componentNames, existing,
                 written, errors, promise, parserVars, countVars>>

\* a validation that never throws
MutValidateStoriesFile ==
  /\ pc = "validateStoriesFile"
  /\ pc' = "parseStoriesFile"
  /\ UNCHANGED <<genVars, batchVars, parserVars, countVars>>

\* validateStoriesFile: throws when the stories file does not exist
ValidateStoriesFile ==
  /\ pc = "validateStoriesFile"
  /\ pc' = IF componentName \in existing THEN "parseStoriesFile" ELSE "catch"
  /\ UNCHANGED <<genVars, batchVars, parserVars, countVars>>

\* parseStoriesFile: readFileSync returns the text, which is parsed, or
\* throws
ParseStoriesFile ==
  /\ pc = "parseStoriesFile"
  /\ \/ /\ storiesData' = ParsedOf[componentName]
        /\ pc' = "generateMarkdownContent"
     \/ /\ storiesData' = storiesData
        /\ pc' = "catch"
  /\ UNCHANGED <<componentName, markdownContent, batchVars, parserVars,
                 countVars>>

GenerateMarkdownContent ==
  /\ pc = "generateMarkdownContent"
  /\ markdownContent' = generateMarkdownContent(storiesData, componentName)
  /\ pc' = "writeMarkdownFile"
  /\ UNCHANGED <<storiesData, componentName, batchVars, parserVars, countVars>>

\* buildOutputPath and writeMarkdownFile: the file is written, or mkdirSync
\* or writeFileSync throws
WriteMarkdownFile ==
  /\ pc = "writeMarkdownFile"
  /\ \/ /\ written' = Append(written, [componentName |-> componentName,
                                       content |-> markdownContent])
        /\ pc' = "forOf"
     \/ /\ written' = written
        /\ pc' = "catch"
  /\ UNCHANGED <<genVars, componentNames, nameIndex, existing, attempts,
                 errors, promise, parserVars, countVars>>

\* a handler that lets the error go on to the caller
MutCatchError ==
  /\ pc = "catch"
  /\ promise' = [state |-> "rejected", value |-> Some(componentName)]
  /\ pc' = "done"
  /\ UNCHANGED <<componentNames, nameIndex, existing, written, attempts,
                 errors, genVars, parserVars, countVars>>

\* the catch clause: console.error with the name and the message
CatchError ==
  /\ pc = "catch"
  /\ errors' = Append(errors, componentName)
  /\ pc' = "forOf"
  /\ UNCHANGED <<componentNames, nameIndex, existing, written, attempts,
                 promise, genVars, parserVars, countVars>>

\* the loop is over: the function returns without a value
ReturnUndefined ==
  /\ pc = "forOf"
  /\ nameIndex >= Len(componentNames)
  /\ promise' = [state |-> "fulfilled", value |-> None]
  /\ pc' = "done"
  /\ UNCHANGED <<componentNames, nameIndex, existing, written, attempts,
                 errors, genVars, parserVars, countVars>>

NextBatch ==
  \/ CallProcessComponent
  \/ ValidateStoriesFile
  \/ ParseStoriesFile
  \/ GenerateMarkdownContent
  \/ WriteMarkdownFile
  \/ CatchError
  \/ ReturnUndefined

\* an async function whose awaits are on settled values runs to its end
SpecBatch == InitBatch /\ [][NextBatch]_vars /\ WF_vars(NextBatch)

\* C12: processComponent is called with the names of the list, one call
\* per entry and in list order, whatever failed before; the promise is
\* never rejected and is always fulfilled in the end, with every name
\* either written or reported.
C12_EveryNameAttempted ==
  /\ [](/\ Len(attempts) = nameIndex
        /\ attempts = SubSeq(componentNames, 1, nameIndex)
        /\ promise.state \in {"pending", "fulfilled"}
        /\ pc = "done" =>
             /\ attempts = componentNames
             /\ promise.state = "fulfilled"
             /\ Len(written) + Len(errors) = Len(componentNames))
  /\ <>(promise.state = "fulfilled")

\* two names: the first has no stories file and is reported, the second is
\* written, and the promise is fulfilled
C12_Witness ==
  /\ pc = "done"
  /\ Len(componentNames) = 2
  /\ componentNames[1] \notin existing
  /\ errors = <<componentNames[1]>>
  /\ Len(written) = 1
  /\ written[1].componentName = componentNames[2]
  /\ promise.state = "fulfilled"

\* C16: the promise is fulfilled with a list that has one entry per
\* requested name, each with componentName and a result or an error.
C16_ResolvesToResults ==
  pc = "done" =>
    /\ promise.value # None
    /\ Len(promise.value[1]) = Len(componentNames)
    /\ \A k \in 1..Len(componentNames) :
         /\ promise.value[1][k].componentName = componentNames[k]
         /\ \/ "result" \in DOMAIN promise.value[1][k]
            \/ "error" \in DOMAIN promise.value[1][k]

(***************************************************************************)
(* extractRenderCode on its own: the body of an export whose render        *)
(* function, or whose own function body, holds up to MaxStatements         *)
(* statements.                                                             *)
(***************************************************************************)
MaxStatements == 3

StatementPool ==
  { "return <X/>;",
    "return (<P/>);",
    "return <C/>",
    "const a = 1;",
    "if (a) return <A/>;",
    "return <B onClick={() => { f(); g(); }}/>;" }

Indented(sts) == [k \in 1..Len(sts) |-> "    " \o sts[k]]

\* an object-format body with a render: key
RenderBody(sts) ==
  join(<<"  name: 'Main',", "  render: () => {">> \o Indented(sts)
         \o <<"  },", "};">>)

\* the body of a function-format export
FunctionBody(sts) == join(Indented(sts) \o <<"};">>)

RenderBodies ==
  LET seqs == UNION {[1..n -> StatementPool] : n \in 0..MaxStatements}
  IN  {RenderBody(sts) : sts \in seqs} \cup {FunctionBody(sts) : sts \in seqs}

InitRender ==
  /\ content \in RenderBodies
  /\ pc = "extractRenderCode"
  /\ result = None
  /\ meta = None
  /\ lines = <<>>
  /\ i = 0
  /\ stories = <<>>
  /\ origin = <<>>
  /\ startPos = 0
  /\ IdleOthers

\* result holds the returned value: absent for undefined
CallExtractRenderCode ==
  /\ pc = "extractRenderCode"
  /\ result' = extractRenderCode(content)
  /\ pc' = "returned"
  /\ UNCHANGED <<content, meta, lines, i, stories, origin, startPos, otherVars>>

SpecRender == InitRender /\ [][CallExtractRenderCode]_vars

\* the render: key of the text is followed by a function body
RenderFound == RenderMatchFrom(content, 0) # None

\* the text of that body, trimmed
RenderCodeBody == trim(RenderMatchFrom(content, 0)[1])

\* no return of the body is followed by an opening parenthesis
NoParenReturn ==
  \A p \in Occurrences(RenderCodeBody, "return") :
    At(RenderCodeBody, SkipSpaces(RenderCodeBody, p + 6)) # "("

\* the returns of the body that whitespace follows
SpacedReturns ==
  {p \in Occurrences(RenderCodeBody, "return") : IsSpace(At(RenderCodeBody, p + 6))}

\* those from which the first semicolon is the last character of the body,
\* with some text in between
CleanReturns ==
  LET last == Len(RenderCodeBody) - 1
  IN  {p \in SpacedReturns :
         /\ p + 8 <= last
         /\ \A s \in Occurrences(RenderCodeBody, ";") : s > p => s = last}

NameLiterals ==
  {p \in Occurrences(content, "name:") :
     LET q == SkipSpaces(content, p + 5)
     IN  IsQuote(At(content, q)) /\ indexOf(content, At(content, q), q + 1) # -1}

\* the text of the literal that follows the name: at p, without its quotes
LiteralAt(p) ==
  LET q == SkipSpaces(content, p + 5)
  IN  Substring(content, q + 1, indexOf(content, At(content, q), q + 1))

\* C22: displayName is the full text of the first quoted literal that
\* follows a name: in the body, quotes removed, also when the literal holds
\* the other kind of quote; it is absent when no name: is followed by a
\* quoted literal.
C22_FullQuotedName ==
  pc = "returned" =>
    result[1].displayName
      = IF NameLiterals = {} THEN None ELSE Some(LiteralAt(Min(NameLiterals)))

(***************************************************************************)
(* cleanQuotes on its own: every text of up to MaxLen characters out of    *)
(* the two quote characters and two other characters.                      *)
(***************************************************************************)
QuoteTexts ==
  {Concat(cs) :
     cs \in UNION {[1..n -> {"\"", "'", "a", " "}] : n \in 0..MaxLen}}

InitQuotes ==
  /\ content \in QuoteTexts
  /\ pc = "cleanQuotes"
  /\ result = None
  /\ meta = None
  /\ lines = <<>>
  /\ i = 0
  /\ stories = <<>>
  /\ origin = <<>>
  /\ startPos = 0
  /\ IdleOthers

CallCleanQuotes ==
  /\ pc = "cleanQuotes"
  /\ result' = Some(cleanQuotes(content))
  /\ pc' = "returned"
  /\ UNCHANGED <<content, meta, lines, i, stories, origin, startPos, otherVars>>

SpecQuotes == InitQuotes /\ [][CallCleanQuotes]_vars

\* the text starts and ends with double quotes, or starts and ends with
\* single quotes
SameQuoteEnds(s) ==
  \/ StartsWithAt(s, "\"", 0) /\ EndsWith(s, "\"")
  \/ StartsWithAt(s, "'", 0) /\ EndsWith(s, "'")

\* r is s without a of its first characters and b of its last, all of them
\* quotes
Stripped(s, r, a, b) ==
  /\ a + b <= Len(s)
  /\ r = Substring(s, a, Len(s) - b)
  /\ a = 1 => IsQuote(At(s, 0))
  /\ b = 1 => IsQuote(At(s, Len(s) - 1))

\* C23 as stated: a text that starts and ends with the same kind of quote
\* loses exactly that pair; any other text loses at most one quote from the
\* start and at most one from the end; nothing but a quote is removed and
\* never more than one character from each end.
C23_PairOrAtMostOneEach ==
  pc = "returned" =>
    /\ SameQuoteEnds(content) => Stripped(content, result[1], 1, 1)
    /\ \E a, b \in {0, 1} : Stripped(content, result[1], a, b)

\* C23 amended: as stated for a text of two or more characters; a text that
\* is one quote character starts and ends with it and becomes the empty text.
C23_PairWhenTwoOrMore ==
  pc = "returned" =>
    /\ (SameQuoteEnds(content) /\ Len(content) >= 2)
         => Stripped(content, result[1], 1, 1)
    /\ (SameQuoteEnds(content) /\ Len(content) = 1) => result[1] = ""
    /\ \E a, b \in {0, 1} : Stripped(content, result[1], a, b)

\* a text with one kind of quote at the start and the other at the end has
\* lost both, and nothing else
C23_Witness ==
  /\ pc = "returned"
  /\ Len(content) >= 3
  /\ IsQuote(At(content, 0))
  /\ IsQuote(At(content, Len(content) - 1))
  /\ ~SameQuoteEnds(content)
  /\ Len(result[1]) = Len(content) - 2

(***************************************************************************)
(* extractBacktickContent and its two callers on texts whose long-quoted   *)
(* block may never close: a story: field and a configuration block, each   *)
(* with an opening backtick followed by up to MaxLen characters.           *)
(***************************************************************************)
ApiWrap(t) == "  story: " \o BT \o t \o "\n};"

MetaWrap(t) ==
  "const meta = {\n  component: " \o BT \o t \o "\n};\n" \o ExportDefault

WrappedTexts ==
  LET tails == {Concat(cs) :
                  cs \in UNION {[1..n -> BtAlphabet] : n \in 0..MaxLen}}
  IN  {ApiWrap(t) : t \in tails} \cup {MetaWrap(t) : t \in tails}

\* one of the three functions has been called on the text
InitUnclosed ==
  /\ content \in WrappedTexts
  /\ \/ /\ pc = "extractBacktickContent"
        /\ startPos \in {k \in 0..(Len(content) - 1) : At(content, k) = BT}
     \/ /\ pc \in {"parseMetaData", "extractApiDescription"}
        /\ startPos = 0
  /\ result = None
  /\ meta = None
  /\ lines = <<>>
  /\ i = 0
  /\ stories = <<>>
  /\ origin = <<>>
  /\ IdleOthers

\* parseMetaData returns; meta holds the returned value
ReturnParseMetaData ==
  /\ pc = "parseMetaData"
  /\ meta' = parseMetaData(content)
  /\ pc' = "metaReturned"
  /\ UNCHANGED <<content, result, lines, i, stories, origin, startPos, otherVars>>

\* extractApiDescription returns; result holds the returned value
CallExtractApiDescription ==
  /\ pc = "extractApiDescription"
  /\ result' = extractApiDescription(content)
  /\ pc' = "apiReturned"
  /\ UNCHANGED <<content, meta, lines, i, stories, origin, startPos, otherVars>>

NextUnclosed ==
  \/ CallExtractBacktickContent
  \/ ReturnParseMetaData
  \/ CallExtractApiDescription

SpecUnclosed == InitUnclosed /\ [][NextUnclosed]_vars

\* no backtick of the text after position b has an even run of backslashes
\* before it
NeverClosed(text, b) ==
  \A p \in (b + 1)..(Len(text) - 1) :
    At(text, p) = BT => BackslashRun(text, p) % 2 = 1

\* the text after position b, trimmed
TailFrom(text, b) == trim(Substring(text, b + 1, Len(text)))

\* the configuration block of the text: from the declaration marker up to
\* the default export
MetaBlock ==
  Substring(content, indexOf(content, "const meta", 0),
            indexOf(content, ExportDefault, 0))

\* the first backtick after the first key of the given name, -1 when none
BacktickAfterKey(text, key) ==
  IF indexOf(text, key, 0) = -1 THEN -1
  ELSE indexOf(text, BT, indexOf(text, key, 0))

\* C24: when no unescaped backtick follows the opening one,
\* extractBacktickContent returns the trimmed text from the character after
\* the opening backtick to the end of the text it was given, a string and no
\* error; parseMetaData then returns a record with that description and
\* extractApiDescription returns that text.
C24_UnclosedRunsToEnd ==
  /\ (pc = "returned" /\ NeverClosed(content, startPos))
       => result = Some(TailFrom(content, startPos))
  /\ (/\ pc = "apiReturned"
      /\ BacktickAfterKey(content, "story:") # -1
      /\ NeverClosed(content, BacktickAfterKey(content, "story:")))
       => result = Some(TailFrom(content, BacktickAfterKey(content, "story:")))
  /\ (/\ pc = "metaReturned"
      /\ BacktickAfterKey(MetaBlock, "component:") # -1
      /\ NeverClosed(MetaBlock, BacktickAfterKey(MetaBlock, "component:")))
       => /\ meta # None
          /\ meta[1].componentDescription
               = TailFrom(MetaBlock, BacktickAfterKey(MetaBlock, "component:"))

\* parseMetaData has returned a description that runs to the end of a
\* block whose backtick never closes and holds an escaped backtick
C24_Witness ==
  /\ pc = "metaReturned"
  /\ BacktickAfterKey(MetaBlock, "component:") # -1
  /\ NeverClosed(MetaBlock, BacktickAfterKey(MetaBlock, "component:"))
  /\ meta # None
  /\ BacktickCount(meta[1].componentDescription) >= 1
  /\ EndsWith(meta[1].componentDescription, "};")

\* the lines after line k that hold an export header
LaterHeaders(ls, k) ==
  {j \in (k + 1)..(Len(ls) - 1) : StoryMatch(ls[j + 1]).match # None}

\* C25: an export whose depth, started at 1 on the line after its header
\* whatever braces the header holds, is above zero at the end of every later
\* line is the last record parseStoryExports returns: its body is every line
\* after the header, the headers among them included, and none of those
\* gives a record.
C25_NothingAfterUnclosed ==
  pc = "done" =>
    \A a \in 1..Len(origin) :
      NeverCloses(lines, origin[a]) =>
        /\ a = Len(origin)
        /\ Len(stories) = a
        /\ CapturedLines(lines, origin[a])
             = SubSeq(lines, origin[a] + 2, Len(lines))

\* the scan has returned after an export that never closes and that is
\* followed by a line holding a further export header
C25_Witness ==
  /\ pc = "done"
  /\ \E a \in 1..Len(origin) :
       /\ NeverCloses(lines, origin[a])
       /\ LaterHeaders(lines, origin[a]) # {}
       /\ a = Len(stories)

\* the places of the 'api' records in storyExports
ApiIndices ==
  {k \in 1..Len(storiesData.storyExports) : IsApi(storiesData.storyExports[k])}

\* how many times the text occurs in the output
TimesInOutput(text) == Cardinality(Occurrences(markdownContent, text))

\* C26: the output holds the text of at most one 'api' record, the first
\* one in storyExports: the text of a later 'api' record is not in the
\* output, and when the first one has no description the output holds no
\* API text even when a later 'api' record has one.
C26_OnlyFirstApiRecord ==
  pc = "returned" =>
    \A k \in ApiIndices :
      LET first == storiesData.storyExports[Min(ApiIndices)]
          story == storiesData.storyExports[k]
      IN  Truthy(story.description) =>
            TimesInOutput(story.description[1])
              = IF first.description = story.description THEN 1 ELSE 0

\* the first 'api' record has no description, a later one has, an example
\* was rendered, and the output holds no API text
C26_Witness ==
  /\ pc = "returned"
  /\ ApiIndices # {}
  /\ ~Truthy(storiesData.storyExports[Min(ApiIndices)].description)
  /\ \E k \in ApiIndices : Truthy(storiesData.storyExports[k].description)
  /\ DemoRecords # <<>>
  /\ TimesInOutput("table.") = 0

\* what the driver has to write for a component: its stories file parsed
\* and rendered
RenderedFor(name) == generateMarkdownContent(ParsedOf[name], name)

\* C27: the steps of a component run in the order validate, parse,
\* generate, write, each on the outcome of the one before; a file is
\* written only by the write step and holds the component's stories file
\* parsed and rendered; a component whose stories file is missing goes from
\* validate to the catch clause with nothing written; and the loop takes
\* the next name only after the write step or the catch clause.
C27_ValidateParseGenerateWrite ==
  /\ [][/\ pc' = "parseStoriesFile"
             => (pc = "validateStoriesFile" /\ componentName \in existing)
        /\ pc' = "generateMarkdownContent"
             => (pc = "parseStoriesFile" /\ storiesData' = ParsedOf[componentName])
        /\ pc' = "writeMarkdownFile"
             => /\ pc = "generateMarkdownContent"
                /\ markdownContent' = RenderedFor(componentName)
        /\ written' # written
             => /\ pc = "writeMarkdownFile"
                /\ written' = Append(written, [componentName |-> componentName,
                                               content |-> markdownContent])
        /\ (pc = "validateStoriesFile" /\ componentName \notin existing)
             => (pc' = "catch" /\ written' = written)
        /\ pc' = "forOf" => pc \in {"writeMarkdownFile", "catch"}
        /\ (componentName' # componentName \/ nameIndex' # nameIndex)
             => (pc = "forOf" /\ pc' = "validateStoriesFile")]_vars
  /\ [](\A k \in 1..Len(written) :
          /\ written[k].componentName \in existing
          /\ written[k].content = RenderedFor(written[k].componentName))

\* two different names, the first with a stories file and the second
\* without: the driver has returned with the first one written, parsed and
\* rendered, and the second one reported
C27_Witness ==
  /\ pc = "done"
  /\ Len(componentNames) = 2
  /\ componentNames[1] \in existing
  /\ componentNames[2] \notin existing
  /\ Len(written) = 1
  /\ written[1].componentName = componentNames[1]
  /\ written[1].content # ""
  /\ errors = <<componentNames[2]>>

====
